---- MODULE Spec2Model ----
(***************************************************************************)
(* The write path of the expenses registry (lexndru/expenses, expenses.go): *)
(* Actors.Push, Labels.Push and Transactions.Push against a relational     *)
(* store reached through GORM.  The store is modelled as four tables; the   *)
(* GORM create pipeline the three Push methods drive (BeforeCreate hooks,   *)
(* belongs-to associations saved first with ON CONFLICT DO NOTHING, the row *)
(* insert with the caller's ON CONFLICT clause, has-many associations saved *)
(* afterwards, everything of one CreateInBatches call inside one database   *)
(* transaction) is modelled by the Create* operators.                       *)
(*                                                                         *)
(* created_at / updated_at columns are left out: no operation reads them.   *)
(***************************************************************************)
EXTENDS Integers, Sequences, FiniteSets, TLC

VARIABLES
    db,      \* the four tables: actors, labels, trxs, details
    prev,    \* the tables as they were when the last Push was called
    fk,      \* the storage engine: MySQL, which enforces foreign keys and locks the
             \* rows a transaction touches (TRUE), or SQLite as gorm opens it, which
             \* enforces no foreign key and locks the database for a writer (FALSE)
    nOps,    \* number of Push calls made so far
    lastOp,  \* the call that returned last: its receiver collection and context; for
             \* Labels.Push also the collection after the call and NewPushRequest's
             \* output; NoOp between the writes of a Transactions.Push
    err,     \* the error the last Push call returned ("" is nil)
    wlog,    \* the CreateInBatches calls the last Push issued, in order, with their errors
    handed,  \* the slice the last Labels.Push handed to CreateInBatches
    schema,  \* the tables that exist in the database
    callers, \* two Push calls under way at once: for each its call, the database
             \* transactions it has yet to make (the rows each one inserts), its
             \* error, and of its open transaction the rows it has locked for
             \* writing (x) and for reading (s) and what they held before (undo)
    issued,  \* the callers in the order they took turns at the store (the first
             \* MaxTurns turns)
    running, \* the call that is between two of its steps, NoCall when there is
             \* none: a Transactions.Push between two of its writes (its collection
             \* and context, the write it makes next and the tables as they were
             \* when it was called), or an Install or Uninstall between two table
             \* operations (its kind, its log so far and the tables at the call)
    reading  \* the Labels.Pull that is between its two SELECTs: its context and
             \* the rows the first SELECT returned; NoCall when there is none

vars == <<db, prev, fk, nOps, lastOp, err, wlog, handed, schema, callers, issued, running, reading>>

(***************************************************************************)
(* Bounds                                                                  *)
(***************************************************************************)
MaxOps == 2

\* number of Install and Uninstall calls
MaxCalls == 3

\* largest page size of a Pull
MaxLimit == 2

\* number of turns of the concurrent callers that are recorded
MaxTurns == 3

(***************************************************************************)
(* Values                                                                  *)
(***************************************************************************)
NoErr == ""
ErrEmptySlice == "empty slice found"
ErrPanic == "panic: slice bounds out of range"
ErrActorName == "Actor cannot have have an empty name"
ErrLabelName == "Label cannot have an empty name"
ErrSum == "transaction details don't add up"
ErrNegative == "details amount cannot be negative"
ErrForeignKey == "foreign key constraint fails"

\* sql.NullString: Valid = FALSE is SQL NULL
NullString(s, valid) == [String |-> s, Valid |-> valid]
Null == NullString("", FALSE)
Str(s) == NullString(s, TRUE)

\* a nil *string UUID
NoUUID == 0

Actor(name, flags, headers) == [Name |-> name, Flags |-> flags, Headers |-> headers]
NewActor(name) == Actor(name, 0, "")

\* A Label value without its Parent pointer.
LabelRec(name, parentName, flags, headers) ==
    [Name |-> name, ParentName |-> parentName, Flags |-> flags, Headers |-> headers]

\* An in-memory Label is a non-empty sequence: the Label first, then the Label its
\* Parent pointer reaches, then that one's Parent, ...  Parent == nil iff the
\* sequence has length 1.  <<>> stands for a nil *Label.
NewLabel(name, parent) == <<LabelRec(name, Null, 0, "")>> \o parent
ParentOf(o) == Tail(o)

Ok(d) == [db |-> d, err |-> NoErr]
Fail(d, e) == [db |-> d, err |-> e]

\* if err != nil { return err }: the steps after a failed one do not run
Bind(r, F(_)) == IF r.err # NoErr THEN r ELSE F(r.db)

\* a database transaction around the steps that gave r: an error restores d
Rollback(d, r) == IF r.err # NoErr THEN Fail(d, r.err) ELSE r

Put(f, k, v) == [x \in DOMAIN f \cup {k} |-> IF x = k THEN v ELSE f[x]]

EmptyDB == [actors |-> <<>>, labels |-> <<>>, trxs |-> <<>>, details |-> <<>>]

DoNothing == "DoNothing"
DoUpdate == "DoUpdate"

\* mutant: every Push updates on conflict
ClauseAlwaysUpdate(ctx) == DoUpdate

\* mutant: every Push skips on conflict
ClauseAlwaysSkip(ctx) == DoNothing

\* the ON CONFLICT clause each Push chooses from ctx.JustAppend
ClauseOf(ctx) == IF ctx.JustAppend THEN DoNothing ELSE DoUpdate

(***************************************************************************)
(* Actor                                                                   *)
(***************************************************************************)
ActorBeforeCreate(a) == IF a.Name = "" THEN ErrActorName ELSE NoErr

ActorRow(a) == [Flags |-> a.Flags, Headers |-> a.Headers]

\* INSERT INTO actors ... ON CONFLICT: rows are applied in order; UpdateAll
\* overwrites every non-key column of the conflicting row.
RECURSIVE InsertActorRows(_, _, _)
InsertActorRows(d, rows, clause) ==
    IF rows = <<>> THEN Ok(d)
    ELSE LET a == Head(rows)
             skip == a.Name \in DOMAIN d.actors /\ clause = DoNothing
             d2 == IF skip THEN d ELSE [d EXCEPT !.actors = Put(@, a.Name, ActorRow(a))]
         IN InsertActorRows(d2, Tail(rows), clause)

\* db.Create(&[]Actor): hooks, then the insert.
CreateActors(d, chunk, clause) ==
    IF chunk = <<>> THEN Fail(d, ErrEmptySlice)
    ELSE IF \E i \in DOMAIN chunk : ActorBeforeCreate(chunk[i]) # NoErr
         THEN Fail(d, ErrActorName)
         ELSE InsertActorRows(d, chunk, clause)

(***************************************************************************)
(* Label                                                                   *)
(***************************************************************************)
\* mutant: the name is not checked
LabelBeforeCreateAnyName(o) ==
    [label |-> IF ParentOf(o) # <<>>
               THEN <<[o[1] EXCEPT !.ParentName = Str(o[2].Name)]>> \o ParentOf(o)
               ELSE o,
     err |-> NoErr]

\* mutant: the parent name is not taken from the Parent pointer
LabelBeforeCreateNoParent(o) ==
    [label |-> o, err |-> IF o[1].Name = "" THEN ErrLabelName ELSE NoErr]

\* Label.BeforeCreate: the name check, then ParentName from the Parent pointer.
LabelBeforeCreate(o) ==
    IF o[1].Name = "" THEN [label |-> o, err |-> ErrLabelName]
    ELSE [label |-> IF ParentOf(o) # <<>>
                    THEN <<[o[1] EXCEPT !.ParentName = Str(o[2].Name)]>> \o ParentOf(o)
                    ELSE o,
          err |-> NoErr]

LabelRow(o) == [ParentName |-> IF o[1].ParentName.Valid THEN o[1].ParentName ELSE Null,
                Flags |-> o[1].Flags, Headers |-> o[1].Headers]

\* INSERT INTO labels ... ON CONFLICT (name): DO NOTHING or DO UPDATE SET
\* parent_name, flags, headers.  An enforced foreign key parent_name -> labels.name
\* is checked row by row.
RECURSIVE InsertLabelRows(_, _, _, _)
InsertLabelRows(d, rows, clause, fkOn) ==
    IF rows = <<>> THEN Ok(d)
    ELSE LET o == Head(rows)
             name == o[1].Name
             row == LabelRow(o)
             skip == name \in DOMAIN d.labels /\ clause = DoNothing
             dangling == /\ fkOn /\ ~skip /\ row.ParentName.Valid
                         /\ row.ParentName.String \notin (DOMAIN d.labels \cup {name})
         IN IF dangling THEN Fail(d, ErrForeignKey)
            ELSE InsertLabelRows(IF skip THEN d ELSE [d EXCEPT !.labels = Put(@, name, row)],
                                 Tail(rows), clause, fkOn)

\* db.Create(&[]Label): hooks on every element, the belongs-to Parent objects
\* created first (ON CONFLICT DO NOTHING, recursively), then the insert.
RECURSIVE CreateLabels(_, _, _, _)
CreateLabels(d, chunk, clause, fkOn) ==
    IF chunk = <<>> THEN Fail(d, ErrEmptySlice)
    ELSE IF \E i \in DOMAIN chunk : LabelBeforeCreate(chunk[i]).err # NoErr
         THEN Fail(d, ErrLabelName)
         ELSE LET hooked == [i \in DOMAIN chunk |-> LabelBeforeCreate(chunk[i]).label]
                  withParent == SelectSeq(hooked, LAMBDA o : ParentOf(o) # <<>>)
                  parents == [i \in DOMAIN withParent |-> ParentOf(withParent[i])]
              IN Bind(IF parents = <<>> THEN Ok(d)
                      ELSE CreateLabels(d, parents, DoNothing, fkOn),
                      LAMBDA d2 : InsertLabelRows(d2, hooked, clause, fkOn))

(***************************************************************************)
(* Details                                                                 *)
(***************************************************************************)
\* uuid.New(): a fresh identifier for element i of the pushed slice (j = 0) or
\* its j-th Details (j > 0) in the op-th Push; never equal to a caller-set UUID.
FreshUUID(op, i, j) == op * 100 + i * 10 + j

\* mutant: the negative amount is let through
DetailsBeforeCreateNoCheck(x, op, i, j) ==
    [detail |-> IF x.UUID = NoUUID THEN [x EXCEPT !.UUID = FreshUUID(op, i, j)] ELSE x,
     err |-> NoErr]

\* Details.BeforeCreate at position j of the Details of slice element i
DetailsBeforeCreate(x, op, i, j) ==
    LET x2 == IF x.UUID = NoUUID THEN [x EXCEPT !.UUID = FreshUUID(op, i, j)] ELSE x
    IN [detail |-> x2, err |-> IF x.Amount < 0 THEN ErrNegative ELSE NoErr]

DetailsRow(x) == [TransactionUUID |-> x.TransactionUUID, LabelName |-> x.LabelName,
                  Amount |-> x.Amount, Flags |-> x.Flags, Headers |-> x.Headers]

\* INSERT INTO details ... ON CONFLICT (uuid) DO UPDATE SET transaction_uuid: the
\* clause GORM gives a has-many association (its foreign key column).
RECURSIVE InsertDetailsRows(_, _, _)
InsertDetailsRows(d, rows, fkOn) ==
    IF rows = <<>> THEN Ok(d)
    ELSE LET x == Head(rows)
             exists == x.UUID \in DOMAIN d.details
             new == IF exists
                    THEN [d.details[x.UUID] EXCEPT !.TransactionUUID = x.TransactionUUID]
                    ELSE DetailsRow(x)
             dangling == /\ fkOn
                         /\ \/ new.TransactionUUID \notin DOMAIN d.trxs
                            \/ ~exists /\ new.LabelName \notin DOMAIN d.labels
         IN IF dangling THEN Fail(d, ErrForeignKey)
            ELSE InsertDetailsRows([d EXCEPT !.details = Put(@, x.UUID, new)], Tail(rows), fkOn)

\* db.Create(&[]*Details) as issued for the has-many association: hooks, the
\* belongs-to Label objects created first (DO NOTHING) and LabelName set from them,
\* then the insert.  xs carry Pos = <<i, j>>.
CreateDetails(d, xs, fkOn, op) ==
    LET hk == [n \in DOMAIN xs |-> DetailsBeforeCreate(xs[n], op, xs[n].Pos[1], xs[n].Pos[2])]
    IN IF \E n \in DOMAIN xs : hk[n].err # NoErr THEN Fail(d, ErrNegative)
       ELSE LET hooked == [n \in DOMAIN xs |-> hk[n].detail]
                withLabel == SelectSeq(hooked, LAMBDA x : x.Label # <<>>)
                lbs == [n \in DOMAIN withLabel |-> withLabel[n].Label]
                rows == [n \in DOMAIN hooked |->
                            IF hooked[n].Label # <<>>
                            THEN [hooked[n] EXCEPT !.LabelName = hooked[n].Label[1].Name]
                            ELSE hooked[n]]
            IN Bind(IF lbs = <<>> THEN Ok(d) ELSE CreateLabels(d, lbs, DoNothing, fkOn),
                    LAMBDA d2 : InsertDetailsRows(d2, rows, fkOn))

(***************************************************************************)
(* Transaction                                                             *)
(***************************************************************************)
\* Amount is an int64 whose arithmetic wraps around; the model keeps the
\* two's complement arithmetic on a narrower word
IntBits == 4
MinInt == 0 - 2 ^ (IntBits - 1)
MaxInt == 2 ^ (IntBits - 1) - 1
Wrap(n) == ((n - MinInt) % (2 ^ IntBits)) + MinInt

\* sum += d.Amount over the Details
RECURSIVE SumAmounts(_)
SumAmounts(xs) ==
    IF xs = <<>> THEN 0 ELSE Wrap(Head(xs).Amount + SumAmounts(Tail(xs)))

\* Transaction.BeforeCreate for slice element i of the op-th Push
TransactionBeforeCreate(t, op, i) ==
    LET t2 == IF t.UUID = NoUUID THEN [t EXCEPT !.UUID = FreshUUID(op, i, 0)] ELSE t
        sum == SumAmounts(t.Details)
        amount == IF t.Amount < 0 THEN Wrap(t.Amount * (-1)) ELSE t.Amount
    IN [trx |-> t2,
        err |-> IF Len(t.Details) > 0 /\ sum # amount THEN ErrSum ELSE NoErr]

TransactionRow(t) == [Date |-> t.Date, Amount |-> t.Amount, LabelName |-> t.LabelName,
                      SenderName |-> t.SenderName, ReceiverName |-> t.ReceiverName,
                      Flags |-> t.Flags, Headers |-> t.Headers]

\* mutant: the conflicting row is overwritten in every column
TransactionUpdateAll(old, t) == TransactionRow(t)

\* the columns of DoUpdates: label_name, sender_name, receiver_name, flags, headers
TransactionUpdate(old, t) == [old EXCEPT !.LabelName = t.LabelName,
                                         !.SenderName = t.SenderName,
                                         !.ReceiverName = t.ReceiverName,
                                         !.Flags = t.Flags,
                                         !.Headers = t.Headers]

\* INSERT INTO transactions ... ON CONFLICT (uuid): DO NOTHING or DO UPDATE SET the
\* columns above.  Enforced foreign keys: label_name, sender_name, receiver_name.
RECURSIVE InsertTransactionRows(_, _, _, _)
InsertTransactionRows(d, rows, clause, fkOn) ==
    IF rows = <<>> THEN Ok(d)
    ELSE LET t == Head(rows)
             exists == t.UUID \in DOMAIN d.trxs
             skip == exists /\ clause = DoNothing
             new == IF exists THEN TransactionUpdate(d.trxs[t.UUID], t) ELSE TransactionRow(t)
             dangling == /\ fkOn /\ ~skip
                         /\ \/ new.LabelName \notin DOMAIN d.labels
                            \/ new.SenderName \notin DOMAIN d.actors
                            \/ new.ReceiverName \notin DOMAIN d.actors
         IN IF dangling THEN Fail(d, ErrForeignKey)
            ELSE InsertTransactionRows(IF skip THEN d ELSE [d EXCEPT !.trxs = Put(@, t.UUID, new)],
                                       Tail(rows), clause, fkOn)

\* the Details of every element of the chunk, each with its foreign key set to the
\* owner's UUID and its position
RECURSIVE DetailsOf(_)
DetailsOf(ts) ==
    IF ts = <<>> THEN <<>>
    ELSE LET t == Head(ts)
         IN [j \in DOMAIN t.Details |->
                [UUID |-> t.Details[j].UUID, TransactionUUID |-> t.UUID,
                 LabelName |-> t.Details[j].LabelName, Amount |-> t.Details[j].Amount,
                 Flags |-> t.Details[j].Flags, Headers |-> t.Details[j].Headers,
                 Label |-> t.Details[j].Label, Pos |-> <<t.Pos, j>>]]
            \o DetailsOf(Tail(ts))

\* db.Create(&[]Transaction): hooks on every element; belongs-to Label, Sender and
\* Receiver objects created first (DO NOTHING) and the name columns set from them;
\* the insert with the caller's clause; then the has-many Details.  Elements carry
\* Pos, their index in the pushed slice.
CreateTransactions(d, chunk, clause, fkOn, op) ==
    IF chunk = <<>> THEN Fail(d, ErrEmptySlice)
    ELSE
    LET hk == [n \in DOMAIN chunk |-> TransactionBeforeCreate(chunk[n], op, chunk[n].Pos)]
    IN IF \E n \in DOMAIN chunk : hk[n].err # NoErr THEN Fail(d, ErrSum)
       ELSE
       LET hooked == [n \in DOMAIN chunk |-> hk[n].trx]
           wl == SelectSeq(hooked, LAMBDA t : t.Label # <<>>)
           ws == SelectSeq(hooked, LAMBDA t : t.Sender # <<>>)
           wr == SelectSeq(hooked, LAMBDA t : t.Receiver # <<>>)
           rows == [n \in DOMAIN hooked |->
                      [hooked[n] EXCEPT
                         !.LabelName = IF hooked[n].Label # <<>>
                                       THEN hooked[n].Label[1].Name ELSE @,
                         !.SenderName = IF hooked[n].Sender # <<>>
                                        THEN hooked[n].Sender[1].Name ELSE @,
                         !.ReceiverName = IF hooked[n].Receiver # <<>>
                                          THEN hooked[n].Receiver[1].Name ELSE @]]
           xs == DetailsOf(rows)
           SaveLabel(d1) == IF wl = <<>> THEN Ok(d1)
                            ELSE CreateLabels(d1, [n \in DOMAIN wl |-> wl[n].Label],
                                              DoNothing, fkOn)
           SaveSender(d2) == IF ws = <<>> THEN Ok(d2)
                             ELSE CreateActors(d2, [n \in DOMAIN ws |-> ws[n].Sender[1]],
                                               DoNothing)
           SaveReceiver(d3) == IF wr = <<>> THEN Ok(d3)
                               ELSE CreateActors(d3, [n \in DOMAIN wr |-> wr[n].Receiver[1]],
                                                 DoNothing)
           Insert(d4) == InsertTransactionRows(d4, rows, clause, fkOn)
           SaveDetails(d5) == IF xs = <<>> THEN Ok(d5) ELSE CreateDetails(d5, xs, fkOn, op)
       IN Bind(Bind(Bind(Bind(SaveLabel(d), SaveSender), SaveReceiver), Insert), SaveDetails)

(***************************************************************************)
(* CreateInBatches                                                         *)
(***************************************************************************)
Create(kind, d, chunk, clause, fkOn, op) ==
    CASE kind = "Actor" -> CreateActors(d, chunk, clause)
      [] kind = "Label" -> CreateLabels(d, chunk, clause, fkOn)
      [] kind = "Transaction" -> CreateTransactions(d, chunk, clause, fkOn, op)

\* for i := 0; i < len; i += batchSize { Create(value[i:ends]) }
RECURSIVE BatchLoop(_, _, _, _, _, _, _)
BatchLoop(kind, d, list, batchSize, clause, fkOn, op) ==
    IF list = <<>> THEN Ok(d)
    ELSE IF batchSize < 0 THEN Fail(d, ErrPanic)
    ELSE LET ends == IF batchSize > Len(list) THEN Len(list) ELSE batchSize
         IN Bind(Create(kind, d, SubSeq(list, 1, ends), clause, fkOn, op),
                 LAMBDA d2 : BatchLoop(kind, d2, SubSeq(list, ends + 1, Len(list)),
                                       batchSize, clause, fkOn, op))

\* The loop runs inside one database transaction: an error rolls every chunk back.
CreateInBatches(kind, d, list, batchSize, clause, fkOn, op) ==
    Rollback(d, BatchLoop(kind, d, list, batchSize, clause, fkOn, op))

(***************************************************************************)
(* Actors.Push, Labels.Push                                                *)
(***************************************************************************)
ActorsPush(d, a, ctx) ==
    CreateInBatches("Actor", d, a, ctx.BatchSize, ClauseOf(ctx), FALSE, 0)

HasName(ds, name) == \E i \in DOMAIN ds : ds[i][1].Name = name

\* if _, ok := distincts[x.Name]; !ok { distincts[x.Name] = x }
AddDistinct(ds, o) == IF HasName(ds, o[1].Name) THEN ds ELSE Append(ds, o)

\* mutant: no parent is visited
WalkParentsNone(ds, parent) == ds

\* mutant: only the direct parent is visited
WalkParentsOnce(ds, parent) == IF parent = <<>> THEN ds ELSE AddDistinct(ds, parent)

\* for parent = lb.Parent; parent != nil; parent = parent.Parent
RECURSIVE WalkParents(_, _)
WalkParents(ds, parent) ==
    IF parent = <<>> THEN ds ELSE WalkParents(AddDistinct(ds, parent), ParentOf(parent))

\* the map distincts, as the sequence of its values in order of first insertion
RECURSIVE Distincts(_, _)
Distincts(ds, l) ==
    IF l = <<>> THEN ds
    ELSE Distincts(AddDistinct(WalkParents(ds, ParentOf(Head(l))), Head(l)), Tail(l))

\* the permutations of 1..n: the orders in which ranging over a Go map of n keys
\* may yield them
Orders(n) == {p \in [1..n -> 1..n] : \A i, j \in 1..n : p[i] = p[j] => i = j}

\* list: the values of distincts in the order ord
ListOf(l, ord) == LET ds == Distincts(<<>>, l) IN [i \in DOMAIN ds |-> ds[ord[i]]]

\* mutant: the collection of the caller is left as it was
SyncNothing(l) == l

\* (*l)[i].ParentName = NullString{String: lb.Parent.Name, Valid: true} for each
\* element with a Parent: the collection of the caller after Labels.Push
SyncParentNames(l) ==
    [i \in DOMAIN l |->
        IF ParentOf(l[i]) # <<>>
        THEN <<[l[i][1] EXCEPT !.ParentName = Str(l[i][2].Name)]>> \o ParentOf(l[i])
        ELSE l[i]]

\* the objects of the caller the loop of Labels.Push visits, in the order it
\* visits them: <<i, k>> is element i (k = 1), its parent (k = 2), the parent
\* of that one (k = 3)
RECURSIVE Visits(_, _)
Visits(l, i) ==
    IF i > Len(l) THEN <<>>
    ELSE [n \in 1..Len(l[i]) |-> IF n = Len(l[i]) THEN <<i, 1>> ELSE <<i, n + 1>>]
         \o Visits(l, i + 1)

Node(l, v) == SubSeq(l[v[1]], v[2], Len(l[v[1]]))

\* the object of which the Label of that name in distincts is a copy: the first
\* one visited
Origin(l, name) ==
    LET vs == Visits(l, 1)
    IN vs[CHOOSE n \in DOMAIN vs :
             /\ Node(l, vs[n])[1].Name = name
             /\ \A m \in 1..(n - 1) : Node(l, vs[m])[1].Name # name]

\* the objects the Parent pointers of the objects vs point to
ParentsAt(l, vs) == {<<v[1], v[2] + 1>> : v \in {w \in vs : w[2] < Len(l[w[1]])}}

\* the objects of the caller on which Label.BeforeCreate is called when the
\* Parent objects of vs are created: those objects, and, unless one of them is
\* refused, the ones their own Parent pointers lead to
RECURSIVE HookedFrom(_, _)
HookedFrom(l, vs) ==
    LET ps == ParentsAt(l, vs)
    IN IF ps = {} THEN {}
       ELSE ps \cup (IF \E p \in ps : Node(l, p)[1].Name = "" THEN {}
                     ELSE HookedFrom(l, ps))

\* ... when a chunk of the list is created: the elements of the list are
\* copies, their Parent pointers lead to the objects of the caller
ChunkHooked(l, chunk) ==
    IF \E n \in DOMAIN chunk : chunk[n][1].Name = "" THEN {}
    ELSE HookedFrom(l, {Origin(l, chunk[n][1].Name) : n \in DOMAIN chunk})

\* ... by the chunks CreateInBatches gets to, the first failing one being the
\* last
RECURSIVE HookedLoop(_, _, _, _, _, _)
HookedLoop(l, d, list, batchSize, clause, fkOn) ==
    IF list = <<>> \/ batchSize <= 0 THEN {}
    ELSE LET ends == IF batchSize > Len(list) THEN Len(list) ELSE batchSize
             chunk == SubSeq(list, 1, ends)
             r == Create("Label", d, chunk, clause, fkOn, 0)
         IN ChunkHooked(l, chunk)
            \cup (IF r.err # NoErr THEN {}
                  ELSE HookedLoop(l, r.db, SubSeq(list, ends + 1, Len(list)),
                                  batchSize, clause, fkOn))

\* Label.BeforeCreate on the objects hooked: lb.ParentName = lb.Parent.Name
\* (pointer receiver) where the object has a name and a Parent
HookedCollection(l, hooked) ==
    [i \in DOMAIN l |->
        [k \in DOMAIN l[i] |->
            IF <<i, k>> \in hooked /\ k < Len(l[i]) /\ l[i][k].Name # ""
            THEN [l[i][k] EXCEPT !.ParentName = Str(l[i][k + 1].Name)]
            ELSE l[i][k]]]

\* the collection of the caller, with the objects its Parent pointers lead to,
\* after Labels.Push
After(l, d, ctx, fkOn, ord) ==
    HookedCollection(SyncParentNames(l),
                     HookedLoop(l, d, ListOf(l, ord), ctx.BatchSize, ClauseOf(ctx), fkOn))

\* NullString.MarshalJSON: the string, or null (the empty sequence)
MarshalJSON(ns) == IF ns.Valid THEN <<ns.String>> ELSE <<>>

\* json.Marshal of Labels: one object per element, the keys of the json tags
\* (Parent and the timestamps are tagged "-")
ToJson(l) ==
    [i \in DOMAIN l |->
        [name |-> l[i][1].Name, parent |-> MarshalJSON(l[i][1].ParentName),
         flags |-> l[i][1].Flags, headers |-> l[i][1].Headers]]

\* NewPushRequest on Labels: the error of Push, or else the JSON of the
\* collection as Push left it
NewPushRequest(l, e) ==
    IF e # NoErr THEN [out |-> <<>>, err |-> e]
    ELSE [out |-> ToJson(SyncParentNames(l)), err |-> NoErr]

LabelsPush(d, l, ctx, fkOn, ord) ==
    CreateInBatches("Label", d, ListOf(l, ord), ctx.BatchSize, ClauseOf(ctx), fkOn, 0)

(***************************************************************************)
(* Transactions.Push                                                       *)
(***************************************************************************)
catchActor(st, a) ==
    IF a.Name \notin st.seenActors /\ a.Name # ""
    THEN [st EXCEPT !.seenActors = @ \cup {a.Name}, !.everyActor = Append(@, a)]
    ELSE st

\* l, *l.Parent, *l.Parent.Parent, ...
RECURSIVE WithAncestors(_)
WithAncestors(o) == IF o = <<>> THEN <<>> ELSE <<o>> \o WithAncestors(ParentOf(o))

catchLabel(st, o) ==
    IF o[1].Name \notin st.seenLabels /\ o[1].Name # ""
    THEN [st EXCEPT !.seenLabels = @ \cup {o[1].Name}, !.everyLabel = @ \o WithAncestors(o)]
    ELSE st

RECURSIVE CatchDetails(_, _)
CatchDetails(st, xs) ==
    IF xs = <<>> THEN st
    ELSE LET ls == Head(xs)
             st2 == IF ls.Label # <<>> THEN catchLabel(st, ls.Label)
                    ELSE IF ls.LabelName # "" THEN catchLabel(st, NewLabel(ls.LabelName, <<>>))
                    ELSE st
         IN CatchDetails(st2, Tail(xs))

CatchTransaction(st, trx) ==
    LET s1 == IF trx.Receiver # <<>> THEN catchActor(st, trx.Receiver[1])
              ELSE IF trx.ReceiverName # "" THEN catchActor(st, NewActor(trx.ReceiverName))
              ELSE st
        s2 == IF trx.Sender # <<>> THEN catchActor(s1, trx.Sender[1])
              ELSE IF trx.SenderName # "" THEN catchActor(s1, NewActor(trx.SenderName))
              ELSE s1
        s3 == IF trx.Label # <<>> THEN catchLabel(s2, trx.Label)
              ELSE IF trx.LabelName # "" THEN catchLabel(s2, NewLabel(trx.LabelName, <<>>))
              ELSE s2
    IN CatchDetails(s3, trx.Details)

RECURSIVE Extract(_, _)
Extract(st, t) == IF t = <<>> THEN st ELSE Extract(CatchTransaction(st, Head(t)), Tail(t))

Extracted(t) ==
    Extract([seenActors |-> {}, everyActor |-> <<>>, seenLabels |-> {}, everyLabel |-> <<>>], t)

\* the slice elements with their index
Positioned(t) ==
    [i \in DOMAIN t |->
        [UUID |-> t[i].UUID, Date |-> t[i].Date, Amount |-> t[i].Amount,
         LabelName |-> t[i].LabelName, SenderName |-> t[i].SenderName,
         ReceiverName |-> t[i].ReceiverName, Flags |-> t[i].Flags, Headers |-> t[i].Headers,
         Label |-> t[i].Label, Sender |-> t[i].Sender, Receiver |-> t[i].Receiver,
         Details |-> t[i].Details, Pos |-> i]]

Entry(call, e) == [call |-> call, err |-> e]

\* mutant: the dependencies are pushed in the mode of the caller
SubContextOfCaller(ctx) == ctx

\* subctx := ctx; subctx.JustAppend = true
SubContext(ctx) == [ctx EXCEPT !.JustAppend = TRUE]

\* mutant: the error of a write is not looked at
ReturnsNever(e) == FALSE

\* if err := ...; err != nil { return err }
Returns(e) == e # NoErr

(***************************************************************************)
(* Inputs of the Push calls                                                *)
(***************************************************************************)
\* flags and headers, varied together
Metas == {[Flags |-> 0, Headers |-> ""], [Flags |-> 1, Headers |-> "h"]}
Meta0 == [Flags |-> 0, Headers |-> ""]
Meta1 == [Flags |-> 1, Headers |-> "h"]

BatchSizes == {-1, 0, 1, 2}
Contexts == [BatchSize : BatchSizes, JustAppend : BOOLEAN]

ActorValues == {Actor(n, m.Flags, m.Headers) : n \in {"", "a", "b"}, m \in Metas}

\* no Actor, one Actor, or Actor a (flags 1) followed by another copy of a, by b,
\* or by a nameless Actor
ActorInputs == {<<>>} \cup {<<x>> : x \in ActorValues}
               \cup {<<Actor("a", 1, "h"), y>> :
                        y \in {Actor("a", 0, ""), Actor("b", 0, ""), Actor("", 0, "")}}

Lab(name, m) == LabelRec(name, Null, m.Flags, m.Headers)

\* In-memory Labels: with and without Parent objects, a three-level chain, a
\* parent given by name only, an empty name, an empty-named parent.
LabelA0 == <<Lab("a", Meta0)>>
LabelA1 == <<Lab("a", Meta1)>>
LabelB0 == <<Lab("b", Meta0)>>
LabelBA == <<Lab("b", Meta1), Lab("a", Meta0)>>
LabelAB == <<Lab("a", Meta0), Lab("b", Meta0)>>
LabelCBA == <<Lab("c", Meta0), Lab("b", Meta0), Lab("a", Meta1)>>
LabelAByName == <<LabelRec("a", Str("b"), 0, "")>>
LabelEmpty == <<Lab("", Meta0)>>
LabelBEmptyParent == <<Lab("b", Meta0), Lab("", Meta0)>>

LabelInputs ==
    {<<>>, <<LabelA0>>, <<LabelA1>>, <<LabelB0>>, <<LabelBA>>, <<LabelAB>>, <<LabelCBA>>,
     <<LabelAByName>>, <<LabelEmpty>>, <<LabelBEmptyParent>>,
     <<LabelBA, LabelA1>>, <<LabelA1, LabelBA>>, <<LabelA0, LabelEmpty>>,
     <<LabelAByName, LabelB0>>, <<LabelB0, LabelBA>>}

\* a caller-set UUID
PresetUUIDs == {1}

Detail(amount, labelName, label) ==
    [UUID |-> NoUUID, LabelName |-> labelName, Amount |-> amount, Flags |-> 0,
     Headers |-> "", Label |-> label]

\* how a Transaction names its Label, Sender and Receiver: by bare names, by no
\* name at all, or by embedded objects
Refs(labelName, senderName, receiverName, label, sender, receiver) ==
    [LabelName |-> labelName, SenderName |-> senderName, ReceiverName |-> receiverName,
     Label |-> label, Sender |-> sender, Receiver |-> receiver]

PlainRefs == Refs("a", "a", "b", <<>>, <<>>, <<>>)
OtherRefs == Refs("b", "b", "a", <<>>, <<>>, <<>>)

SpecialRefs ==
    {Refs("", "", "", <<>>, <<>>, <<>>),
     Refs("", "b", "", LabelBA, <<Actor("a", 1, "h")>>, <<Actor("b", 1, "h")>>),
     Refs("", "", "", LabelA1, <<Actor("b", 0, "")>>, <<Actor("", 0, "")>>),
     Refs("", "a", "b", LabelBEmptyParent, <<>>, <<>>)}

\* date, amount, flags, headers and the three names, varied together
Variant0 == [Date |-> 1, Amount |-> -2, Flags |-> 0, Headers |-> "", Refs |-> PlainRefs]
Variant1 == [Date |-> 2, Amount |-> 1, Flags |-> 1, Headers |-> "h", Refs |-> OtherRefs]
Variants == {Variant0, Variant1}

Trx(uuid, v, refs, details) ==
    [UUID |-> uuid, Date |-> v.Date, Amount |-> v.Amount,
     LabelName |-> refs.LabelName, SenderName |-> refs.SenderName,
     ReceiverName |-> refs.ReceiverName, Flags |-> v.Flags, Headers |-> v.Headers,
     Label |-> refs.Label, Sender |-> refs.Sender, Receiver |-> refs.Receiver,
     Details |-> details]

\* the absolute value of the integer n
Abs(n) == IF n < 0 THEN 0 - n ELSE n

\* no Details, or one Detail of the whole amount
GoodDetails(v) == {<<>>, <<Detail(Abs(v.Amount), "a", <<>>)>>}

\* Details that must be refused: a sum that differs from |Amount|; a negative
\* Detail in a sum that equals |Amount|
BadDetails(v) == {<<Detail(Abs(v.Amount) + 1, "a", <<>>)>>,
                  <<Detail(Abs(v.Amount) + 1, "a", <<>>), Detail(-1, "b", <<>>)>>}

\* Details that split the amount and name a Label by an object; a Detail that
\* names no Label
OtherDetails == {<<Detail(1, "", LabelCBA), Detail(1, "b", <<>>)>>,
                 <<Detail(2, "", <<>>)>>}

\* three Details whose sum passes the largest amount and comes round to 0
WrapTrx == Trx(NoUUID, [Variant0 EXCEPT !.Amount = 0], PlainRefs,
               <<Detail(MaxInt, "a", <<>>), Detail(MaxInt, "a", <<>>),
                 Detail(2, "a", <<>>)>>)

GoodTrx == UNION {{Trx(u, v, v.Refs, ds) : u \in PresetUUIDs \cup {NoUUID},
                                           ds \in GoodDetails(v)} : v \in Variants}
           \cup {Trx(NoUUID, Variant0, r, <<>>) : r \in SpecialRefs}
           \cup {Trx(NoUUID, Variant0, PlainRefs, ds) : ds \in OtherDetails}
BadTrx == {Trx(u, Variant0, PlainRefs, ds) : u \in PresetUUIDs \cup {NoUUID},
                                             ds \in BadDetails(Variant0)}

PlainTrx == Trx(NoUUID, Variant0, PlainRefs, <<>>)

\* no Transaction; one Transaction; a good one before or after one that must be refused; two
\* Transactions of which the second has a caller-set UUID
TransactionInputs ==
    {<<>>} \cup {<<x>> : x \in GoodTrx \cup BadTrx \cup {WrapTrx}}
    \cup {<<PlainTrx, Trx(NoUUID, Variant0, PlainRefs, ds)>> : ds \in BadDetails(Variant0)}
    \cup {<<Trx(NoUUID, Variant0, PlainRefs, ds), PlainTrx>> : ds \in BadDetails(Variant0)}
    \cup {<<PlainTrx, Trx(1, Variant1, OtherRefs, <<>>)>>}

(***************************************************************************)
(* The registry as a state machine: any sequence of Push calls             *)
(***************************************************************************)
NoOp == [kind |-> "None"]

NoCall == <<>>

\* var tables = [...]interface{}{&Actor{}, &Label{}, &Transaction{}, &Details{}}
tables == <<"Actor", "Label", "Transaction", "Details">>

Init ==
    /\ db = EmptyDB
    /\ prev = EmptyDB
    /\ fk \in BOOLEAN
    /\ nOps = 0
    /\ lastOp = NoOp
    /\ err = NoErr
    /\ wlog = <<>>
    /\ handed = <<>>
    /\ schema = {tables[i] : i \in DOMAIN tables}
    /\ callers = <<>>
    /\ issued = <<>>
    /\ running = NoCall
    /\ reading = NoCall

PushActors ==
    /\ nOps < MaxOps
    /\ running = NoCall
    /\ \E a \in ActorInputs, ctx \in Contexts :
         LET r == ActorsPush(db, a, ctx)
         IN /\ db' = r.db
            /\ err' = r.err
            /\ lastOp' = [kind |-> "Actors", coll |-> a, ctx |-> ctx]
            /\ wlog' = <<Entry("Actors", r.err)>>
            /\ handed' = <<>>
    /\ prev' = db
    /\ nOps' = nOps + 1
    /\ UNCHANGED <<fk, schema, callers, issued, running, reading>>

PushLabels ==
    /\ nOps < MaxOps
    /\ running = NoCall
    /\ \E l \in LabelInputs, ctx \in Contexts :
         \E ord \in Orders(Len(Distincts(<<>>, l))) :
            LET r == LabelsPush(db, l, ctx, fk, ord)
            IN /\ db' = r.db
               /\ err' = r.err
               /\ lastOp' = [kind |-> "Labels", coll |-> l, ctx |-> ctx,
                             after |-> After(l, db, ctx, fk, ord),
                             out |-> NewPushRequest(l, r.err).out]
               /\ wlog' = <<Entry("Labels", r.err)>>
               /\ handed' = ListOf(l, ord)
    /\ prev' = db
    /\ nOps' = nOps + 1
    /\ UNCHANGED <<fk, schema, callers, issued, running, reading>>

\* Transactions.Push returns e: before holds the tables as they were at the call
Return(t, ctx, e, before) ==
    /\ lastOp' = [kind |-> "Transactions", coll |-> t, ctx |-> ctx]
    /\ err' = e
    /\ prev' = before
    /\ nOps' = nOps + 1
    /\ running' = NoCall

\* Transactions.Push goes on to the write next
GoOn(t, ctx, next, before) ==
    /\ running' = [coll |-> t, ctx |-> ctx, next |-> next, before |-> before]
    /\ lastOp' = NoOp
    /\ UNCHANGED <<err, prev, nOps>>

\* the call, up to its first write: everyActor.Push(subctx)
Begin(t, ctx) ==
    LET r == ActorsPush(db, Extracted(t).everyActor, SubContext(ctx))
    IN /\ db' = r.db
       /\ wlog' = <<Entry("Actors", r.err)>>
       /\ handed' = <<>>
       /\ IF Returns(r.err) THEN Return(t, ctx, r.err, db) ELSE GoOn(t, ctx, "Labels", db)

PushTransactions ==
    /\ nOps < MaxOps
    /\ running = NoCall
    /\ \E t \in TransactionInputs, ctx \in Contexts : Begin(t, ctx)
    /\ UNCHANGED <<fk, schema, callers, issued, reading>>

\* the second write: everyLabel.Push(subctx)
PushTransactionsLabels ==
    /\ running # NoCall
    /\ running.next = "Labels"
    /\ LET t == running.coll
           ctx == running.ctx
       IN \E ord \in Orders(Len(Distincts(<<>>, Extracted(t).everyLabel))) :
             LET r == LabelsPush(db, Extracted(t).everyLabel, SubContext(ctx), fk, ord)
             IN /\ db' = r.db
                /\ wlog' = Append(wlog, Entry("Labels", r.err))
                /\ handed' = ListOf(Extracted(t).everyLabel, ord)
                /\ IF Returns(r.err) THEN Return(t, ctx, r.err, running.before)
                   ELSE GoOn(t, ctx, "Transactions", running.before)
    /\ UNCHANGED <<fk, schema, callers, issued, reading>>

\* the third write: q.CreateInBatches(t, ctx.BatchSize), and the return
PushTransactionsWrite ==
    /\ running # NoCall
    /\ running.next = "Transactions"
    /\ LET t == running.coll
           ctx == running.ctx
           r == CreateInBatches("Transaction", db, Positioned(t), ctx.BatchSize,
                                ClauseOf(ctx), fk, nOps + 1)
       IN /\ db' = r.db
          /\ wlog' = Append(wlog, Entry("Transactions", r.err))
          /\ Return(t, ctx, r.err, running.before)
    /\ UNCHANGED <<fk, schema, callers, issued, handed, reading>>

Next ==
    \/ PushActors
    \/ PushLabels
    \/ PushTransactions
    \/ PushTransactionsLabels
    \/ PushTransactionsWrite

Spec == Init /\ [][Next]_vars

(***************************************************************************)
(* Transactions.Pull and Labels.Pull, on a registry filled by              *)
(* Transactions.Push                                                       *)
(***************************************************************************)
\* the sequences of n distinct elements of the set S
Arrangements(S, n) == {q \in [1..n -> S] : \A i, j \in 1..n : q[i] = q[j] => i = j}

\* ORDER BY date: the stored Transactions (by UUID) in an order of ascending
\* date; rows of equal date come in whatever order the engine yields them
DateOrders(d) ==
    {q \in Arrangements(DOMAIN d.trxs, Cardinality(DOMAIN d.trxs)) :
        \A i, j \in DOMAIN q : i < j => d.trxs[q[i]].Date <= d.trxs[q[j]].Date}

\* q.Limit(ctx.Limit).Offset(ctx.Offset).Order(...).Find(...), the rows being
\* yielded in the order q; a Limit of zero is not set on the query
Pull(q, ctx) ==
    IF ctx.Limit = 0 THEN SubSeq(q, ctx.Offset + 1, Len(q))
    ELSE SubSeq(q, ctx.Offset + 1,
                IF ctx.Offset + ctx.Limit > Len(q) THEN Len(q) ELSE ctx.Offset + ctx.Limit)

\* the zero value, and a page size with the offsets of the first two pages of
\* that size
PullContexts == UNION {{[Limit |-> k, Offset |-> o] : o \in {0, k}} : k \in 0..MaxLimit}

\* the names of the model in ascending order
Names == <<"", "a", "b", "c">>

Rank(name) == CHOOSE i \in DOMAIN Names : Names[i] = name

\* ORDER BY name: the stored Labels (by name) in ascending order
LabelsByName(d) ==
    CHOOSE q \in Arrangements(DOMAIN d.labels, Cardinality(DOMAIN d.labels)) :
        \A i, j \in DOMAIN q : i < j => Rank(q[i]) < Rank(q[j])

\* the first SELECT of Labels.Pull: the rows of one page of the Labels, by name
LabelsPage(d, ctx) ==
    LET page == Pull(LabelsByName(d), ctx)
    IN [i \in DOMAIN page |->
          LabelRec(page[i], d.labels[page[i]].ParentName, d.labels[page[i]].Flags,
                   d.labels[page[i]].Headers)]

\* Preload("Parent"), the second SELECT: each row with the row of the Label
\* its parent name refers to, if that one is stored by now
Preloaded(d, rows) ==
    [i \in DOMAIN rows |->
        <<rows[i]>>
        \o (IF rows[i].ParentName.Valid /\ rows[i].ParentName.String \in DOMAIN d.labels
            THEN LET p == rows[i].ParentName.String
                 IN <<LabelRec(p, d.labels[p].ParentName, d.labels[p].Flags,
                               d.labels[p].Headers)>>
            ELSE <<>>)]

\* Transactions without Details, dated 1 or 2, the second with a Label object
\* that has a parent, alone or in pairs
DatedTrx == {PlainTrx,
             Trx(NoUUID, Variant1, Refs("", "b", "a", LabelBA, <<>>, <<>>), <<>>)}
DatedInputs == {<<x>> : x \in DatedTrx} \cup {<<x, y>> : x, y \in DatedTrx}

\* Transactions.Push in Replace mode with a batch size of 2: the call, up to
\* its first write
PushDated ==
    /\ nOps < MaxOps
    /\ running = NoCall
    /\ \E t \in DatedInputs : Begin(t, [BatchSize |-> 2, JustAppend |-> FALSE])
    /\ UNCHANGED <<fk, schema, callers, issued, reading>>

\* one Pull of Transactions, by the caller of Push or by another user of the
\* store: the Transactions its first SELECT yields (the associations that the
\* later SELECTs load into them are not part of the page); lastOp keeps the
\* Pull made just before it, if the last call was one
PullTransactions ==
    /\ \E ctx \in PullContexts, q \in DateOrders(db) :
         lastOp' = [kind |-> "Pull", ctx |-> ctx, page |-> Pull(q, ctx),
                    last |-> IF lastOp.kind = "Pull"
                             THEN [kind |-> "Pull", ctx |-> lastOp.ctx, page |-> lastOp.page]
                             ELSE NoOp]
    /\ UNCHANGED <<db, prev, err, wlog, handed, fk, nOps, schema, callers, issued, running, reading>>

\* one Pull of Labels, up to its first SELECT; no second SELECT is made, and
\* the call returns here, when no row of the page has a parent name
PullLabels ==
    /\ reading = NoCall
    /\ \E ctx \in PullContexts :
         LET rows == LabelsPage(db, ctx)
         IN IF \A i \in DOMAIN rows : ~rows[i].ParentName.Valid
            THEN /\ lastOp' = [kind |-> "LabelsPull", ctx |-> ctx,
                               page |-> Preloaded(db, rows)]
                 /\ UNCHANGED reading
            ELSE /\ reading' = [ctx |-> ctx, rows |-> rows]
                 /\ UNCHANGED lastOp
    /\ UNCHANGED <<db, prev, err, wlog, handed, fk, nOps, schema, callers, issued, running>>

\* the second SELECT of the Labels.Pull under way, on the store as it is now;
\* the call returns the collection of the caller
PullLabelsPreload ==
    /\ reading # NoCall
    /\ lastOp' = [kind |-> "LabelsPull", ctx |-> reading.ctx,
                  page |-> Preloaded(db, reading.rows)]
    /\ reading' = NoCall
    /\ UNCHANGED <<db, prev, err, wlog, handed, fk, nOps, schema, callers, issued, running>>

NextPull ==
    \/ PushDated
    \/ PushTransactionsLabels
    \/ PushTransactionsWrite
    \/ PullTransactions
    \/ PullLabels
    \/ PullLabelsPreload

SpecPull == Init /\ [][NextPull]_vars

(***************************************************************************)
(* Install and Uninstall, against a database that may fail any statement   *)
(***************************************************************************)
ErrStorage == "storage error"

LastErr(log) == log[Len(log)].err

\* db.AutoMigrate(table), which the database may fail
AutoMigrate(sch, table, fails) ==
    [schema |-> IF fails THEN sch ELSE sch \cup {table},
     err |-> IF fails THEN ErrStorage ELSE NoErr]

\* DROP TABLE: the rows of the tables ts go with them
Dropped(d, ts) ==
    [actors |-> IF "Actor" \in ts THEN <<>> ELSE d.actors,
     labels |-> IF "Label" \in ts THEN <<>> ELSE d.labels,
     trxs |-> IF "Transaction" \in ts THEN <<>> ELSE d.trxs,
     details |-> IF "Details" \in ts THEN <<>> ELSE d.details]

\* db.Migrator().DropTable(table), which the database may fail
DropTable(d, sch, table, fails) ==
    [db |-> IF fails THEN d ELSE Dropped(d, {table}),
     schema |-> IF fails THEN sch ELSE sch \ {table},
     err |-> IF fails THEN ErrStorage ELSE NoErr]

\* one pass of the loop over the tables, log holding the passes made and r
\* the outcome of the table operation of this one: the call returns at an
\* error or after the last table
TableStep(kind, log, before, r) ==
    LET log2 == Append(log, [table |-> tables[Len(log) + 1], err |-> r.err])
    IN /\ schema' = r.schema
       /\ IF Returns(r.err) \/ Len(log2) = Len(tables)
          THEN /\ lastOp' = [kind |-> kind, log |-> log2]
               /\ err' = r.err
               /\ prev' = before
               /\ nOps' = nOps + 1
               /\ running' = NoCall
          ELSE /\ running' = [kind |-> kind, log |-> log2, before |-> before]
               /\ lastOp' = NoOp
               /\ UNCHANGED <<err, prev, nOps>>

InitInstall ==
    /\ db = EmptyDB
    /\ prev = EmptyDB
    /\ fk \in BOOLEAN
    /\ nOps = 0
    /\ lastOp = NoOp
    /\ err = NoErr
    /\ wlog = <<>>
    /\ handed = <<>>
    /\ schema = {}
    /\ callers = <<>>
    /\ issued = <<>>
    /\ running = NoCall
    /\ reading = NoCall

\* Install, up to its first AutoMigrate
Install ==
    /\ nOps < MaxCalls
    /\ running = NoCall
    /\ \E fails \in BOOLEAN :
         TableStep("Install", <<>>, db, AutoMigrate(schema, tables[1], fails))
    /\ UNCHANGED <<db, fk, wlog, handed, callers, issued, reading>>

\* the next AutoMigrate of the Install under way
InstallNext ==
    /\ running # NoCall
    /\ running.kind = "Install"
    /\ \E fails \in BOOLEAN :
         TableStep("Install", running.log, running.before,
                   AutoMigrate(schema, tables[Len(running.log) + 1], fails))
    /\ UNCHANGED <<db, fk, wlog, handed, callers, issued, reading>>

\* Uninstall, up to its first DropTable
Uninstall ==
    /\ nOps < MaxCalls
    /\ running = NoCall
    /\ \E fails \in BOOLEAN :
         LET r == DropTable(db, schema, tables[1], fails)
         IN /\ db' = r.db
            /\ TableStep("Uninstall", <<>>, db, r)
    /\ UNCHANGED <<fk, wlog, handed, callers, issued, reading>>

\* the next DropTable of the Uninstall under way
UninstallNext ==
    /\ running # NoCall
    /\ running.kind = "Uninstall"
    /\ \E fails \in BOOLEAN :
         LET r == DropTable(db, schema, tables[Len(running.log) + 1], fails)
         IN /\ db' = r.db
            /\ TableStep("Uninstall", running.log, running.before, r)
    /\ UNCHANGED <<fk, wlog, handed, callers, issued, reading>>

\* the Actors pushed between Install and Uninstall
InstalledInputs == {<<Actor("a", 1, "h")>>, <<Actor("b", 0, "")>>}

\* Actors.Push in Replace mode with a batch size of 1, by the caller of Install
\* or by another user of the store, who may act between two table operations:
\* without the table of the Actors the INSERT fails
PushInstalled ==
    /\ nOps < MaxCalls
    /\ \E a \in InstalledInputs :
         LET ctx == [BatchSize |-> 1, JustAppend |-> FALSE]
             r == IF "Actor" \in schema THEN ActorsPush(db, a, ctx)
                  ELSE Fail(db, ErrStorage)
         IN /\ db' = r.db
            /\ err' = r.err
            /\ lastOp' = [kind |-> "Actors", coll |-> a, ctx |-> ctx]
            /\ wlog' = <<Entry("Actors", r.err)>>
    /\ prev' = db
    /\ nOps' = nOps + 1
    /\ UNCHANGED <<fk, schema, handed, callers, issued, running, reading>>

NextInstall == Install \/ InstallNext \/ Uninstall \/ UninstallNext \/ PushInstalled

SpecInstall == InitInstall /\ [][NextInstall]_vars

(***************************************************************************)
(* Two Push calls at once, their storage statements interleaved.  A Push   *)
(* reads nothing from the store: the statements it issues are fixed by its *)
(* collection and context.  Every CreateInBatches is one database          *)
(* transaction: its INSERTs take their rows one by one and lock them until *)
(* the COMMIT, a row locked by the other caller is waited for, and the     *)
(* wait may end in an error of the engine (lock wait timeout, deadlock,    *)
(* database busy); an error rolls the transaction back and ends the call.  *)
(* The calls are ones that succeed when made alone.                        *)
(***************************************************************************)
ErrDuplicateKey == "duplicate key"
ErrLocked == "lock wait failed"

\* an INSERT with no ON CONFLICT clause
NoClause == "NoClause"

\* mutant: the INSERT carries no ON CONFLICT clause
StmtPlain(table, rows, clause) == [table |-> table, rows |-> rows, clause |-> NoClause]

\* q.Clauses(clause.OnConflict{...}) and the INSERT of rows it is attached to
Stmt(table, rows, clause) == [table |-> table, rows |-> rows, clause |-> clause]

\* value[i:ends] for i := 0; i < len; i += batchSize
RECURSIVE Chunks(_, _)
Chunks(list, batchSize) ==
    IF list = <<>> THEN <<>>
    ELSE LET ends == IF batchSize > Len(list) THEN Len(list) ELSE batchSize
         IN <<SubSeq(list, 1, ends)>> \o Chunks(SubSeq(list, ends + 1, Len(list)), batchSize)

\* the statements of several chunks, one after the other
RECURSIVE Concat(_)
Concat(ss) == IF ss = <<>> THEN <<>> ELSE Head(ss) \o Concat(Tail(ss))

\* Actors.Push: one INSERT for each chunk
ActorStatements(a, ctx) ==
    LET cs == Chunks(a, ctx.BatchSize)
    IN [n \in DOMAIN cs |-> Stmt("actors", cs[n], ClauseOf(ctx))]

\* db.Create(&[]Label): the Parent objects first (DO NOTHING, theirs before
\* them), then the INSERT of the chunk
RECURSIVE LabelChunkStatements(_, _)
LabelChunkStatements(chunk, clause) ==
    LET hooked == [i \in DOMAIN chunk |-> LabelBeforeCreate(chunk[i]).label]
        withParent == SelectSeq(hooked, LAMBDA o : ParentOf(o) # <<>>)
        parents == [i \in DOMAIN withParent |-> ParentOf(withParent[i])]
    IN (IF parents = <<>> THEN <<>> ELSE LabelChunkStatements(parents, DoNothing))
       \o <<Stmt("labels", hooked, clause)>>

\* Labels.Push of the list
LabelStatements(list, ctx) ==
    LET cs == Chunks(list, ctx.BatchSize)
    IN Concat([n \in DOMAIN cs |-> LabelChunkStatements(cs[n], ClauseOf(ctx))])

\* db.Create(&[]*Details) of a has-many association: the Label objects first,
\* then the INSERT
DetailsStatements(xs, op) ==
    LET hooked == [n \in DOMAIN xs |->
                      DetailsBeforeCreate(xs[n], op, xs[n].Pos[1], xs[n].Pos[2]).detail]
        withLabel == SelectSeq(hooked, LAMBDA x : x.Label # <<>>)
        lbs == [n \in DOMAIN withLabel |-> withLabel[n].Label]
        rows == [n \in DOMAIN hooked |->
                    IF hooked[n].Label # <<>>
                    THEN [hooked[n] EXCEPT !.LabelName = hooked[n].Label[1].Name]
                    ELSE hooked[n]]
    IN (IF lbs = <<>> THEN <<>> ELSE LabelChunkStatements(lbs, DoNothing))
       \o <<Stmt("details", rows, DoUpdate)>>

\* db.Create(&[]Transaction): the Label, Sender and Receiver objects, the INSERT
\* of the chunk, the Details
TransactionChunkStatements(chunk, clause, op) ==
    LET hooked == [n \in DOMAIN chunk |->
                      TransactionBeforeCreate(chunk[n], op, chunk[n].Pos).trx]
        wl == SelectSeq(hooked, LAMBDA t : t.Label # <<>>)
        ws == SelectSeq(hooked, LAMBDA t : t.Sender # <<>>)
        wr == SelectSeq(hooked, LAMBDA t : t.Receiver # <<>>)
        rows == [n \in DOMAIN hooked |->
                   [hooked[n] EXCEPT
                      !.LabelName = IF hooked[n].Label # <<>>
                                    THEN hooked[n].Label[1].Name ELSE @,
                      !.SenderName = IF hooked[n].Sender # <<>>
                                     THEN hooked[n].Sender[1].Name ELSE @,
                      !.ReceiverName = IF hooked[n].Receiver # <<>>
                                       THEN hooked[n].Receiver[1].Name ELSE @]]
        xs == DetailsOf(rows)
    IN (IF wl = <<>> THEN <<>>
        ELSE LabelChunkStatements([n \in DOMAIN wl |-> wl[n].Label], DoNothing))
       \o (IF ws = <<>> THEN <<>>
           ELSE <<Stmt("actors", [n \in DOMAIN ws |-> ws[n].Sender[1]], DoNothing)>>)
       \o (IF wr = <<>> THEN <<>>
           ELSE <<Stmt("actors", [n \in DOMAIN wr |-> wr[n].Receiver[1]], DoNothing)>>)
       \o <<Stmt("transactions", rows, clause)>>
       \o (IF xs = <<>> THEN <<>> ELSE DetailsStatements(xs, op))

\* Transactions.Push: everyActor.Push(subctx), everyLabel.Push(subctx), then
\* the chunks of the collection; three CreateInBatches calls
TransactionStatements(t, ctx, op, ord) ==
    LET ex == Extracted(t)
        cs == Chunks(Positioned(t), ctx.BatchSize)
    IN <<ActorStatements(ex.everyActor, SubContext(ctx)),
         LabelStatements(ListOf(ex.everyLabel, ord), SubContext(ctx)),
         Concat([n \in DOMAIN cs |-> TransactionChunkStatements(cs[n], ClauseOf(ctx), op)])>>

\* the statements of a Push call, the op-th caller's, grouped by the
\* CreateInBatches call that issues them
StatementsOf(call, op) ==
    CASE call.kind = "Actors" -> <<ActorStatements(call.coll, call.ctx)>>
      [] call.kind = "Labels" -> <<LabelStatements(ListOf(call.coll, call.ord), call.ctx)>>
      [] call.kind = "Transactions" ->
            TransactionStatements(call.coll, call.ctx, op, call.ord)

\* the rows of the statements ss in the order the engine takes them, each as
\* the INSERT of that row alone
RowsOf(ss) ==
    Concat([n \in DOMAIN ss |->
               [i \in DOMAIN ss[n].rows |-> [ss[n] EXCEPT !.rows = <<ss[n].rows[i]>>]]])

\* the database transactions of a Push call: for each CreateInBatches the rows
\* it inserts before it commits
TransactionsOf(call, op) ==
    LET ws == StatementsOf(call, op)
    IN [n \in DOMAIN ws |-> RowsOf(ws[n])]

\* the primary keys of the rows of a statement, and those stored in its table
KeysOf(s) ==
    [i \in DOMAIN s.rows |->
        CASE s.table = "actors" -> s.rows[i].Name
          [] s.table = "labels" -> s.rows[i][1].Name
          [] OTHER -> s.rows[i].UUID]

Table(d, table) ==
    CASE table = "actors" -> d.actors
      [] table = "labels" -> d.labels
      [] table = "transactions" -> d.trxs
      [] table = "details" -> d.details

StoredKeys(d, table) == DOMAIN Table(d, table)

\* the engine executes one INSERT: without an ON CONFLICT clause a row whose
\* key is stored, or is that of an earlier row of the statement, is an error
Exec(d, s, fkOn) ==
    LET ks == KeysOf(s)
    IN IF /\ s.clause = NoClause
          /\ \/ \E i \in DOMAIN ks : ks[i] \in StoredKeys(d, s.table)
             \/ \E i, j \in DOMAIN ks : i < j /\ ks[i] = ks[j]
       THEN Fail(d, ErrDuplicateKey)
       ELSE CASE s.table = "actors" -> InsertActorRows(d, s.rows, s.clause)
              [] s.table = "labels" -> InsertLabelRows(d, s.rows, s.clause, fkOn)
              [] s.table = "transactions" ->
                    InsertTransactionRows(d, s.rows, s.clause, fkOn)
              [] s.table = "details" -> InsertDetailsRows(d, s.rows, fkOn)

\* the contexts and collections of the concurrent calls: positive batch sizes,
\* named Actors and Labels, Transactions with consistent amounts
ConcContexts == [BatchSize : {1, 2}, JustAppend : BOOLEAN]

ConcActors == {<<Actor("a", 1, "h")>>, <<Actor("a", 0, ""), Actor("b", 1, "h")>>}

ConcLabels == {LabelA1, LabelBA}

ConcTransactions ==
    {PlainTrx,
     Trx(NoUUID, Variant0,
         Refs("", "b", "", LabelBA, <<Actor("a", 1, "h")>>, <<Actor("b", 1, "h")>>), <<>>),
     Trx(NoUUID, Variant0, PlainRefs, <<Detail(1, "", LabelBA), Detail(1, "b", <<>>)>>)}

Call(kind, coll, ctx, ord) == [kind |-> kind, coll |-> coll, ctx |-> ctx, ord |-> ord]

ConcCalls ==
    {Call("Actors", a, ctx, <<>>) : a \in ConcActors, ctx \in ConcContexts}
    \cup UNION {{Call("Labels", <<l>>, ctx, ord) : ctx \in ConcContexts,
                                                  ord \in Orders(Len(Distincts(<<>>, <<l>>)))}
                   : l \in ConcLabels}
    \cup UNION {{Call("Transactions", <<t>>, ctx, ord) :
                    ctx \in ConcContexts,
                    ord \in Orders(Len(Distincts(<<>>, Extracted(<<t>>).everyLabel)))}
                   : t \in ConcTransactions}

\* the row a one-row INSERT writes or runs into, as <<table, key>>
RowKey(s) == <<s.table, KeysOf(s)[1]>>

\* the rows an enforced foreign key makes the engine look up for the row of s:
\* none when the row is skipped as a duplicate
ParentRows(d, s) ==
    LET r == s.rows[1]
        exists == KeysOf(s)[1] \in StoredKeys(d, s.table)
        skip == exists /\ s.clause = DoNothing
    IN CASE s.table = "actors" -> {}
         [] s.table = "labels" ->
               IF skip \/ ~LabelRow(r).ParentName.Valid THEN {}
               ELSE {<<"labels", LabelRow(r).ParentName.String>>} \ {RowKey(s)}
         [] s.table = "transactions" ->
               IF skip THEN {}
               ELSE {<<"labels", r.LabelName>>, <<"actors", r.SenderName>>,
                     <<"actors", r.ReceiverName>>}
         [] s.table = "details" ->
               {<<"transactions", r.TransactionUUID>>}
               \cup (IF exists THEN {} ELSE {<<"labels", r.LabelName>>})

\* the engine lets caller c (1 or 2) write the row k: it locks rows and the
\* other caller holds no lock on k (MySQL), or it locks the database and the
\* other caller has no write of an open transaction (SQLite)
MayWrite(cs, c, k, rowLocks) ==
    IF rowLocks THEN k \notin cs[3 - c].x \cup cs[3 - c].s
    ELSE cs[3 - c].x = {}

\* the engine lets caller c read the rows ks for a foreign key check: the other
\* caller has written none of them in an open transaction
MayRead(cs, c, ks) == ks \cap cs[3 - c].x = {}

\* ROLLBACK on one table: the rows whose first write is recorded in undo are as
\* they were before it (<<>>: there was none)
Undone(d, table, undo) ==
    LET f == Table(d, table)
        mine == {k[2] : k \in {u \in DOMAIN undo : u[1] = table}}
        kept == (DOMAIN f \ mine) \cup {k \in mine : undo[<<table, k>>] # <<>>}
    IN [k \in kept |-> IF k \in mine THEN undo[<<table, k>>][1] ELSE f[k]]

\* ROLLBACK
Undo(d, undo) ==
    [actors |-> Undone(d, "actors", undo), labels |-> Undone(d, "labels", undo),
     trxs |-> Undone(d, "transactions", undo), details |-> Undone(d, "details", undo)]

\* a Push that returns the error e, its transaction closed
Failed(caller, e) ==
    [caller EXCEPT !.txns = <<>>, !.err = e, !.x = {}, !.s = {}, !.undo = <<>>]

\* the INSERT caller c issues next, if it is in a transaction with rows left
HasRow(c) == callers[c].txns # <<>> /\ Head(callers[c].txns) # <<>>
NextRow(c) == Head(Head(callers[c].txns))

\* caller c takes its turn at the store
Turn(c) ==
    issued' = IF Len(issued) < MaxTurns /\ (issued = <<>> \/ issued[Len(issued)] # c)
              THEN Append(issued, c) ELSE issued

\* two callers call Push
StartCalls ==
    /\ callers = <<>>
    /\ \E c1, c2 \in ConcCalls :
          callers' = <<[call |-> c1, txns |-> TransactionsOf(c1, 1), err |-> NoErr,
                        x |-> {}, s |-> {}, undo |-> <<>>],
                       [call |-> c2, txns |-> TransactionsOf(c2, 2), err |-> NoErr,
                        x |-> {}, s |-> {}, undo |-> <<>>]>>
    /\ UNCHANGED <<db, prev, fk, nOps, lastOp, err, wlog, handed, schema, issued, running, reading>>

\* the engine takes the next row of one of the callers, who holds the row and
\* the rows it refers to until the end of its transaction; an error rolls the
\* transaction back and ends the call
ExecNext ==
    /\ \E c \in DOMAIN callers :
          /\ HasRow(c)
          /\ MayWrite(callers, c, RowKey(NextRow(c)), fk)
          /\ fk => MayRead(callers, c, ParentRows(db, NextRow(c)))
          /\ LET st == NextRow(c)
                 k == RowKey(st)
                 r == Exec(db, st, fk)
             IN IF r.err # NoErr
                THEN /\ db' = Undo(db, callers[c].undo)
                     /\ callers' = [callers EXCEPT ![c] = Failed(@, r.err)]
                ELSE /\ db' = r.db
                     /\ callers' =
                          [callers EXCEPT
                             ![c] = [@ EXCEPT
                                       !.txns = <<Tail(Head(@))>> \o Tail(@),
                                       !.x = @ \cup {k},
                                       !.s = @ \cup (IF fk THEN ParentRows(db, st) ELSE {}),
                                       !.undo =
                                          IF k \in DOMAIN @ THEN @
                                          ELSE Put(@, k,
                                                   IF k[2] \in StoredKeys(db, k[1])
                                                   THEN <<Table(db, k[1])[k[2]]>>
                                                   ELSE <<>>)]]
          /\ Turn(c)
    /\ UNCHANGED <<prev, fk, nOps, lastOp, err, wlog, handed, schema, running, reading>>

\* the engine has taken the next row of a caller, and the caller waits for a
\* row that one refers to, which the other caller has written
LockWait ==
    /\ fk
    /\ \E c \in DOMAIN callers :
          /\ HasRow(c)
          /\ RowKey(NextRow(c)) \notin callers[c].x
          /\ MayWrite(callers, c, RowKey(NextRow(c)), fk)
          /\ ~MayRead(callers, c, ParentRows(db, NextRow(c)))
          /\ callers' = [callers EXCEPT ![c] = [@ EXCEPT !.x = @ \cup {RowKey(NextRow(c))}]]
          /\ Turn(c)
    /\ UNCHANGED <<db, prev, fk, nOps, lastOp, err, wlog, handed, schema, running, reading>>

\* the wait of a caller for a lock of the other ends in an error of the engine
LockError ==
    /\ \E c \in DOMAIN callers :
          /\ HasRow(c)
          /\ \/ ~MayWrite(callers, c, RowKey(NextRow(c)), fk)
             \/ fk /\ ~MayRead(callers, c, ParentRows(db, NextRow(c)))
          /\ db' = Undo(db, callers[c].undo)
          /\ callers' = [callers EXCEPT ![c] = Failed(@, ErrLocked)]
          /\ Turn(c)
    /\ UNCHANGED <<prev, fk, nOps, lastOp, err, wlog, handed, schema, running, reading>>

\* COMMIT: the CreateInBatches of a caller has no row left
Commit ==
    /\ \E c \in DOMAIN callers :
          /\ callers[c].txns # <<>>
          /\ Head(callers[c].txns) = <<>>
          /\ callers' = [callers EXCEPT
                            ![c] = [@ EXCEPT !.txns = Tail(@), !.x = {}, !.s = {},
                                             !.undo = <<>>]]
          /\ Turn(c)
    /\ UNCHANGED <<db, prev, fk, nOps, lastOp, err, wlog, handed, schema, running, reading>>

NextConc == StartCalls \/ ExecNext \/ LockWait \/ LockError \/ Commit

SpecConc == Init /\ [][NextConc]_vars

(***************************************************************************)
(* Properties                                                              *)
(***************************************************************************)
IsPush(kind) == lastOp.kind = kind

\* a non-empty Detail set whose amounts do not sum to |Amount|
RECURSIVE Total(_)
Total(xs) == IF xs = <<>> THEN 0 ELSE Head(xs).Amount + Total(Tail(xs))

HasMismatch(t) == Len(t.Details) > 0 /\ Total(t.Details) # Abs(t.Amount)

HasNegativeDetail(t) == \E j \in DOMAIN t.Details : t.Details[j].Amount < 0

\* C1: a Transactions.Push whose collection holds a Transaction with a non-empty
\* Detail set that does not sum to |Amount| returns an error, and the call leaves
\* the transactions and details tables as they were: neither that Transaction,
\* nor its Details, nor any other Transaction of its batch is written.
C1_MismatchAborts ==
    (IsPush("Transactions") /\ \E i \in DOMAIN lastOp.coll : HasMismatch(lastOp.coll[i]))
        => /\ err # NoErr
           /\ db.trxs = prev.trxs
           /\ db.details = prev.details

\* the stored Details of the stored Transaction u
DetailsKeysOf(u) == {k \in DOMAIN db.details : db.details[k].TransactionUUID = u}

RECURSIVE StoredTotal(_)
StoredTotal(ks) ==
    IF ks = {} THEN 0
    ELSE LET k == CHOOSE x \in ks : TRUE
         IN db.details[k].Amount + StoredTotal(ks \ {k})

\* C2: in every reachable store, a stored Transaction with at least one stored
\* Detail has stored Details that are all non-negative and sum to the absolute
\* value of its stored amount.
C2_StoredDetailsAddUp ==
    \A u \in DOMAIN db.trxs :
        DetailsKeysOf(u) # {}
            => /\ StoredTotal(DetailsKeysOf(u)) = Abs(db.trxs[u].Amount)
               /\ \A k \in DetailsKeysOf(u) : db.details[k].Amount >= 0

\* C3: a Transactions.Push whose collection holds a Transaction with a negative
\* Detail returns an error whatever the sum, and writes no Transaction and no
\* Detail.
C3_NegativeDetailRefused ==
    (IsPush("Transactions")
     /\ \E i \in DOMAIN lastOp.coll : HasNegativeDetail(lastOp.coll[i]))
        => /\ err # NoErr
           /\ db.trxs = prev.trxs
           /\ db.details = prev.details

\* the Details (3, -1) of amount -2 add up, and the push fails on the negative one
C3_Witness ==
    /\ IsPush("Transactions")
    /\ \E i \in DOMAIN lastOp.coll :
          HasNegativeDetail(lastOp.coll[i]) /\ ~HasMismatch(lastOp.coll[i])
    /\ err = ErrNegative
    /\ db.trxs = prev.trxs
\* C4: Transactions.Push, in either mode, leaves every Actor row and every Label
\* row that was stored before the call as it was (flags, headers, parent).
C4_PushKeepsDependencies ==
    IsPush("Transactions")
        => /\ \A n \in DOMAIN prev.actors :
                 n \in DOMAIN db.actors /\ db.actors[n] = prev.actors[n]
           /\ \A n \in DOMAIN prev.labels :
                 n \in DOMAIN db.labels /\ db.labels[n] = prev.labels[n]

\* a successful Replace push of a Transaction that embeds an Actor object whose
\* flags and headers differ from the stored row of that name, and a Label
\* object with a parent where the stored row of that name has none
C4_Witness ==
    /\ IsPush("Transactions")
    /\ err = NoErr
    /\ ~lastOp.ctx.JustAppend
    /\ \E i \in DOMAIN lastOp.coll :
          LET t == lastOp.coll[i]
          IN /\ t.Sender # <<>>
             /\ t.Sender[1].Name \in DOMAIN prev.actors
             /\ ActorRow(t.Sender[1]) # prev.actors[t.Sender[1].Name]
             /\ db.actors[t.Sender[1].Name] = prev.actors[t.Sender[1].Name]
             /\ Len(t.Label) >= 2
             /\ t.Label[1].Name \in DOMAIN prev.labels
             /\ ~prev.labels[t.Label[1].Name].ParentName.Valid
             /\ t.Label[1].Flags # prev.labels[t.Label[1].Name].Flags

\* C5: after a successful Transactions.Push every stored Transaction names a
\* stored Label, a stored sender and a stored receiver, and every stored Detail
\* names a stored Label.
C5_ReferencesResolve ==
    (IsPush("Transactions") /\ err = NoErr)
        => /\ \A u \in DOMAIN db.trxs :
                 /\ db.trxs[u].LabelName \in DOMAIN db.labels
                 /\ db.trxs[u].SenderName \in DOMAIN db.actors
                 /\ db.trxs[u].ReceiverName \in DOMAIN db.actors
           /\ \A k \in DOMAIN db.details :
                 db.details[k].LabelName \in DOMAIN db.labels
\* the position in wlog of each write of a Transactions.Push
Stages == <<"Actors", "Labels", "Transactions">>

\* C6: a Transactions.Push writes the extracted Actors, then the extracted
\* Labels, then the Transactions, each write attempted once and only after the
\* earlier ones succeeded; the call returns the error of the write it stopped
\* at; when it stops at the Actors nothing is written, and when it stops at the
\* Labels no Transaction and no Detail is written.
C6_DependenciesFirst ==
    IsPush("Transactions")
        => /\ Len(wlog) \in 1..3
           /\ \A i \in DOMAIN wlog : wlog[i].call = Stages[i]
           /\ \A i \in 1..(Len(wlog) - 1) : wlog[i].err = NoErr
           /\ err = wlog[Len(wlog)].err
           /\ Len(wlog) < 3 => err # NoErr
           /\ Len(wlog) = 1 => db = prev
           /\ Len(wlog) = 2 => db.trxs = prev.trxs /\ db.details = prev.details
                               /\ db.labels = prev.labels

\* the Actors were written, the Labels push failed, and the call stopped there
C6_Witness ==
    /\ IsPush("Transactions")
    /\ Len(wlog) = 2
    /\ err = ErrLabelName
    /\ db.actors # prev.actors
    /\ db.trxs = prev.trxs

\* the rows of old are rows of new, unchanged
Kept(old, new) == \A k \in DOMAIN old : k \in DOMAIN new /\ new[k] = old[k]

\* C7: a Push in AppendOnly mode leaves every Actor row, Label row and
\* Transaction row that was stored before the call unchanged in every field;
\* each table holds one row per primary key, so a pushed record whose key is
\* stored adds no row.
C7_AppendOnlyKeepsRows ==
    (lastOp.kind # "None" /\ lastOp.ctx.JustAppend)
        => /\ Kept(prev.actors, db.actors)
           /\ Kept(prev.labels, db.labels)
           /\ Kept(prev.trxs, db.trxs)
           /\ IsPush("Actors") /\ err = NoErr
                => DOMAIN db.actors =
                      DOMAIN prev.actors \cup {lastOp.coll[i].Name : i \in DOMAIN lastOp.coll}

\* a successful AppendOnly push of a Label whose name is stored with other
\* flags and another parent
C7_Witness ==
    /\ IsPush("Labels")
    /\ lastOp.ctx.JustAppend
    /\ err = NoErr
    /\ \E i \in DOMAIN lastOp.coll :
          LET o == lastOp.coll[i]
          IN /\ o[1].Name \in DOMAIN prev.labels
             /\ o[1].Flags # prev.labels[o[1].Name].Flags
             /\ Len(o) >= 2
             /\ ~prev.labels[o[1].Name].ParentName.Valid
             /\ db.labels[o[1].Name] = prev.labels[o[1].Name]

\* the row a pushed Label is to be stored as: the name of its parent object, or
\* else its own parent name, with its flags and headers
PushedLabelRow(o) ==
    [ParentName |-> IF Len(o) >= 2 THEN Str(o[2].Name) ELSE o[1].ParentName,
     Flags |-> o[1].Flags, Headers |-> o[1].Headers]

\* C8: after a successful Push of Actors or of Labels in Replace mode, the row
\* of every pushed name holds the pushed flags and headers (and, for a Label, the
\* pushed parent reference), whether or not the name was stored before, and the
\* table holds the rows it held and the pushed names, one row each.  Of two
\* Actors of one name in a collection the later is the pushed one.
C8_ReplaceOverwrites ==
    /\ (IsPush("Actors") /\ ~lastOp.ctx.JustAppend /\ err = NoErr)
          => /\ \A i \in DOMAIN lastOp.coll :
                   (\A j \in DOMAIN lastOp.coll : j > i => lastOp.coll[j].Name # lastOp.coll[i].Name)
                      => db.actors[lastOp.coll[i].Name] =
                            [Flags |-> lastOp.coll[i].Flags, Headers |-> lastOp.coll[i].Headers]
             /\ DOMAIN db.actors =
                   DOMAIN prev.actors \cup {lastOp.coll[i].Name : i \in DOMAIN lastOp.coll}
    /\ (IsPush("Labels") /\ ~lastOp.ctx.JustAppend /\ err = NoErr)
          => /\ \A i \in DOMAIN handed :
                   db.labels[handed[i][1].Name] = PushedLabelRow(handed[i])
             /\ DOMAIN db.labels =
                   DOMAIN prev.labels \cup {handed[i][1].Name : i \in DOMAIN handed}

\* a stored Label with a parent, pushed again with other flags and no parent:
\* the stored parent reference is cleared and the flags are replaced
C8_Witness ==
    /\ IsPush("Labels")
    /\ ~lastOp.ctx.JustAppend
    /\ err = NoErr
    /\ \E i \in DOMAIN handed :
          LET n == handed[i][1].Name
          IN /\ n \in DOMAIN prev.labels
             /\ prev.labels[n].ParentName.Valid
             /\ ~db.labels[n].ParentName.Valid
             /\ db.labels[n].Flags # prev.labels[n].Flags

\* the name a pushed Transaction refers to: that of the object, or else the string
RefName(obj, name) == IF obj # <<>> THEN obj[1].Name ELSE name

\* C9: a stored Transaction keeps its UUID, date and amount through every later
\* Push; a successful Transactions.Push adds one row for each record without a
\* UUID and for each new caller-set UUID; in Replace mode the row of a stored
\* UUID takes the pushed label, sender, receiver, flags and headers and nothing
\* else.
C9_CreatedOnce ==
    /\ \A u \in DOMAIN prev.trxs :
          /\ u \in DOMAIN db.trxs
          /\ db.trxs[u].Date = prev.trxs[u].Date
          /\ db.trxs[u].Amount = prev.trxs[u].Amount
    /\ (IsPush("Transactions") /\ err = NoErr)
          => LET c == lastOp.coll
                 fresh == {i \in DOMAIN c : c[i].UUID = NoUUID}
                 given == {c[i].UUID : i \in DOMAIN c} \ {NoUUID}
             IN /\ given \subseteq DOMAIN db.trxs
                /\ Cardinality(DOMAIN db.trxs) =
                      Cardinality(DOMAIN prev.trxs \cup given) + Cardinality(fresh)
                /\ ~lastOp.ctx.JustAppend
                     => \A i \in DOMAIN c :
                           (c[i].UUID \in DOMAIN prev.trxs
                            /\ \A j \in DOMAIN c : j > i => c[j].UUID # c[i].UUID)
                              => db.trxs[c[i].UUID] =
                                    [Date |-> prev.trxs[c[i].UUID].Date,
                                     Amount |-> prev.trxs[c[i].UUID].Amount,
                                     LabelName |-> RefName(c[i].Label, c[i].LabelName),
                                     SenderName |-> RefName(c[i].Sender, c[i].SenderName),
                                     ReceiverName |-> RefName(c[i].Receiver, c[i].ReceiverName),
                                     Flags |-> c[i].Flags,
                                     Headers |-> c[i].Headers]

\* a stored UUID pushed again in Replace mode with another date, amount, label
\* and flags: the label and flags are taken, the date and amount are not
C9_Witness ==
    /\ IsPush("Transactions")
    /\ ~lastOp.ctx.JustAppend
    /\ err = NoErr
    /\ \E i \in DOMAIN lastOp.coll :
          LET t == lastOp.coll[i]
          IN /\ t.UUID \in DOMAIN prev.trxs
             /\ t.Date # prev.trxs[t.UUID].Date
             /\ t.Amount # prev.trxs[t.UUID].Amount
             /\ db.trxs[t.UUID].Date = prev.trxs[t.UUID].Date
             /\ db.trxs[t.UUID].Flags = t.Flags
             /\ t.Flags # prev.trxs[t.UUID].Flags
             /\ db.trxs[t.UUID].LabelName # prev.trxs[t.UUID].LabelName

\* every Label of the collection l and every Label on its parent chains
ChainNodes(l) == {SubSeq(l[i], k, Len(l[i])) : i \in DOMAIN l, k \in 1..3}
                    \ {<<>>}

\* C10: the list Labels.Push hands to the storage write holds no two Labels of
\* one name, each of its Labels is a Label of the collection or one on a parent
\* chain of the collection, and every such Label, at any depth, has its name in
\* the list.
C10_DistinctsClosed ==
    IsPush("Labels")
        => /\ \A i, j \in DOMAIN handed :
                 handed[i][1].Name = handed[j][1].Name => i = j
           /\ \A i \in DOMAIN handed : handed[i] \in ChainNodes(lastOp.coll)
           /\ {handed[i][1].Name : i \in DOMAIN handed} =
                 {o[1].Name : o \in ChainNodes(lastOp.coll)}

\* a Label with a parent and a grandparent: three Labels are handed over
C10_Witness ==
    /\ IsPush("Labels")
    /\ Len(lastOp.coll) = 1
    /\ Len(lastOp.coll[1]) = 3
    /\ Len(handed) = 3
\* the parent a Label is given with: the name of its parent object, or else
\* its own parent-name field
ParentRef(o) == IF Len(o) >= 2 THEN Str(o[2].Name) ELSE o[1].ParentName

\* the name of the Label o is given one parent throughout the collection l
OneParent(l, o) ==
    \A q \in ChainNodes(l) : q[1].Name = o[1].Name => ParentRef(q) = ParentRef(o)

\* C11 as stated: after a successful Labels.Push in Replace mode every Label of
\* every chain is stored with the name of its immediate in-memory parent as its
\* parent reference (null when it has none), whatever else is in the collection.
C11_EveryCopyLinked ==
    (IsPush("Labels") /\ ~lastOp.ctx.JustAppend /\ err = NoErr)
        => \A o \in ChainNodes(lastOp.coll) :
              /\ o[1].Name \in DOMAIN db.labels
              /\ db.labels[o[1].Name].ParentName = ParentRef(o)

\* C11 amended: after a successful Labels.Push in Replace mode every Label of
\* every chain is stored, and its stored parent reference is the name of its
\* immediate in-memory parent (null when it has none) whenever its name is given
\* one parent throughout the collection; a name given several parents is stored
\* with the parent of the copy that is handed to the write.
C11_ChainsLinked ==
    (IsPush("Labels") /\ ~lastOp.ctx.JustAppend /\ err = NoErr)
        => /\ \A o \in ChainNodes(lastOp.coll) :
                 /\ o[1].Name \in DOMAIN db.labels
                 /\ OneParent(lastOp.coll, o)
                      => db.labels[o[1].Name].ParentName = ParentRef(o)
           /\ \A i \in DOMAIN handed :
                 db.labels[handed[i][1].Name].ParentName = ParentRef(handed[i])

\* a chain of three pushed onto a store that held its middle Label without a
\* parent: each Label is linked to the next
C11_Witness ==
    /\ IsPush("Labels")
    /\ ~lastOp.ctx.JustAppend
    /\ err = NoErr
    /\ \E i \in DOMAIN lastOp.coll :
          LET o == lastOp.coll[i]
          IN /\ Len(o) = 3
             /\ o[2].Name \in DOMAIN prev.labels
             /\ ~prev.labels[o[2].Name].ParentName.Valid
             /\ db.labels[o[1].Name].ParentName = Str(o[2].Name)
             /\ db.labels[o[2].Name].ParentName = Str(o[3].Name)
             /\ ~db.labels[o[3].Name].ParentName.Valid
\* C12: whenever the last Push succeeded, every stored Label with a parent
\* reference names, by it, a Label that is stored.
C12_NoDanglingParent ==
    err = NoErr
        => \A n \in DOMAIN db.labels :
              db.labels[n].ParentName.Valid
                 => db.labels[n].ParentName.String \in DOMAIN db.labels
\* C13: after a successful Labels.Push the collection of the caller holds the
\* same Labels in the same order, an element with a parent object has the name
\* of that parent as its parent name, an element without one keeps its parent
\* name, and the output of NewPushRequest is that collection serialized.
C13_CallerCollection ==
    (IsPush("Labels") /\ err = NoErr)
        => LET c == lastOp.coll
               a == lastOp.after
           IN /\ Len(a) = Len(c)
              /\ \A i \in DOMAIN c :
                    /\ a[i][1].Name = c[i][1].Name
                    /\ a[i][1].Flags = c[i][1].Flags
                    /\ a[i][1].Headers = c[i][1].Headers
                    /\ Len(a[i]) = Len(c[i])
                    /\ \A k \in DOMAIN c[i] : a[i][k].Name = c[i][k].Name
                    /\ a[i][1].ParentName = ParentRef(c[i])
              /\ Len(lastOp.out) = Len(c)
              /\ \A i \in DOMAIN c :
                    lastOp.out[i] =
                       [name |-> c[i][1].Name,
                        parent |-> IF ParentRef(c[i]).Valid
                                   THEN <<ParentRef(c[i]).String>> ELSE <<>>,
                        flags |-> c[i][1].Flags, headers |-> c[i][1].Headers]

\* a Label with a parent object and a Label without: the output names the
\* parent of the first and gives null for the second, and holds no ancestor
C13_Witness ==
    /\ IsPush("Labels")
    /\ err = NoErr
    /\ Len(lastOp.coll) = 2
    /\ Len(lastOp.coll[1]) = 2
    /\ ~lastOp.coll[1][1].ParentName.Valid
    /\ lastOp.out[1].parent = <<lastOp.coll[1][2].Name>>
    /\ lastOp.out[2].parent = <<>>
    /\ Len(handed) = 2
    /\ lastOp.coll[2][1].Flags # db.labels[lastOp.coll[2][1].Name].Flags
\* C14: a Push of any kind whose batch size is zero or negative returns an
\* error and leaves the store as it was, whatever the collection.
C14_BatchSizePositive ==
    (lastOp.kind # "None" /\ lastOp.ctx.BatchSize <= 0)
        => err # NoErr /\ db = prev
\* C15: a Push of Actors holding an Actor without a name, or of Labels holding
\* a Label without a name (in the collection or on a parent chain), returns an
\* error and leaves the store as it was; no Actor row and no Label row ever has
\* the empty name.
C15_NamesNotEmpty ==
    /\ (IsPush("Actors") /\ \E i \in DOMAIN lastOp.coll : lastOp.coll[i].Name = "")
          => err # NoErr /\ db = prev
    /\ (IsPush("Labels") /\ \E o \in ChainNodes(lastOp.coll) : o[1].Name = "")
          => err # NoErr /\ db = prev
    /\ "" \notin DOMAIN db.actors
    /\ "" \notin DOMAIN db.labels

\* a named Label written in a batch of its own, then the nameless Label refused
\* and the first one rolled back
C15_Witness ==
    /\ IsPush("Labels")
    /\ Len(lastOp.coll) = 2
    /\ lastOp.coll[1][1].Name # ""
    /\ lastOp.coll[2][1].Name = ""
    /\ lastOp.ctx.BatchSize = 1
    /\ handed[1][1].Name # ""
    /\ err = ErrLabelName
    /\ lastOp.coll[1][1].Name \notin DOMAIN db.labels
\* the tables of the log, in the order of the calls
LogTables(log) == [i \in DOMAIN log |-> log[i].table]

IsPrefix(p, q) == Len(p) <= Len(q) /\ \A i \in DOMAIN p : p[i] = q[i]

\* every table operation but the last succeeded, and the call returned the
\* error of the last (nil when all four succeeded)
StopsAtFirstFailure ==
    /\ \A i \in 1..(Len(lastOp.log) - 1) : lastOp.log[i].err = NoErr
    /\ err = LastErr(lastOp.log)
    /\ err = NoErr => Len(lastOp.log) = 4

\* C16: Install migrates the tables in the order Actor, Label, Transaction,
\* Details, Uninstall drops them in the order Details, Transaction, Label,
\* Actor, and each stops at the first table operation that fails and returns
\* its error.
C16_InstallThenReverse ==
    /\ IsPush("Install")
          => /\ IsPrefix(LogTables(lastOp.log), <<"Actor", "Label", "Transaction", "Details">>)
             /\ StopsAtFirstFailure
    /\ IsPush("Uninstall")
          => /\ IsPrefix(LogTables(lastOp.log), <<"Details", "Transaction", "Label", "Actor">>)
             /\ StopsAtFirstFailure
\* the Transactions of the page p are in ascending order of date
DateSorted(p) == \A i, j \in DOMAIN p : i < j => db.trxs[p[i]].Date <= db.trxs[p[j]].Date

\* C17: of two Pulls made one after the other with (limit k, offset 0) and then
\* (limit k, offset k), the pages share no Transaction, each is sorted by date,
\* and the first page followed by the second is the first 2k (or all, if fewer)
\* stored Transactions in ascending order of date.
C17_PagesPartition ==
    (/\ IsPush("Pull")
     /\ lastOp.ctx.Limit > 0
     /\ lastOp.last.kind = "Pull"
     /\ lastOp.last.ctx.Offset = 0
     /\ lastOp.ctx.Limit = lastOp.last.ctx.Limit
     /\ lastOp.ctx.Offset = lastOp.ctx.Limit)
        => LET k == lastOp.ctx.Limit
               n == Cardinality(DOMAIN db.trxs)
               both == lastOp.last.page \o lastOp.page
           IN /\ \A i, j \in DOMAIN both : both[i] = both[j] => i = j
              /\ Len(both) = IF 2 * k > n THEN n ELSE 2 * k
              /\ DateSorted(lastOp.last.page)
              /\ DateSorted(lastOp.page)
              /\ DateSorted(both)
              /\ \A u \in DOMAIN db.trxs :
                    (\A i \in DOMAIN both : both[i] # u)
                       => \A i \in DOMAIN both : db.trxs[both[i]].Date <= db.trxs[u].Date

\* the Labels visited for the Label o, in the order of the walk: its ancestors
\* from the nearest to the farthest, then o itself
WalkOf(o) == [k \in 1..Len(o) |-> IF k = Len(o) THEN o ELSE SubSeq(o, k + 1, Len(o))]

\* the Labels visited for the collection l, in the order of the walk
RECURSIVE Walk(_)
Walk(l) == IF l = <<>> THEN <<>> ELSE WalkOf(Head(l)) \o Walk(Tail(l))

\* the first Label of the name in the walk w
FirstCopy(w, name) ==
    w[CHOOSE i \in DOMAIN w :
         w[i][1].Name = name /\ \A j \in 1..(i - 1) : w[j][1].Name # name]

\* C19: of the Labels of one name among the inputs and ancestor chains of a
\* Labels.Push, the one handed to the write is the first of the walk, and after
\* a successful Push that writes the name (Replace mode, or a name that was not
\* stored) the stored row holds the flags, headers and parent of that first
\* copy, not those of a later copy.
C19_FirstCopyWins ==
    IsPush("Labels")
        => \A i \in DOMAIN handed :
              LET n == handed[i][1].Name
                  first == FirstCopy(Walk(lastOp.coll), n)
              IN /\ handed[i] = first
                 /\ (err = NoErr /\ (~lastOp.ctx.JustAppend \/ n \notin DOMAIN prev.labels))
                       => db.labels[n] = PushedLabelRow(first)

\* the names of the Labels listed in the collection l
InputNames(l) == {l[i][1].Name : i \in DOMAIN l}

\* C20: after a successful Labels.Push in Replace mode, every stored Label that
\* the collection holds only as an ancestor, reached through a parent pointer,
\* has the parent reference, flags and headers of its in-memory copy (the first
\* of the walk): a bare ancestor is stored with no parent, flags 0 and empty
\* headers.
C20_AncestorsOverwritten ==
    (IsPush("Labels") /\ ~lastOp.ctx.JustAppend /\ err = NoErr)
        => \A o \in ChainNodes(lastOp.coll) :
              (o[1].Name \notin InputNames(lastOp.coll) /\ o[1].Name \in DOMAIN prev.labels)
                 => db.labels[o[1].Name] =
                       PushedLabelRow(FirstCopy(Walk(lastOp.coll), o[1].Name))

\* a Label stored with flags and headers, then the bare parent object of a
\* pushed Label: its row is reset
C20_Witness ==
    /\ IsPush("Labels")
    /\ ~lastOp.ctx.JustAppend
    /\ err = NoErr
    /\ \E o \in ChainNodes(lastOp.coll) :
          LET n == o[1].Name
          IN /\ n \notin InputNames(lastOp.coll)
             /\ n \in DOMAIN prev.labels
             /\ prev.labels[n].Flags # 0
             /\ prev.labels[n].Headers # ""
             /\ db.labels[n] = [ParentName |-> Null, Flags |-> 0, Headers |-> ""]

\* the names of the Labels a Transaction refers to by label, which is the
\* Label object with its ancestors, or else the name
LabelRefs(label, labelName) ==
    IF label # <<>> THEN {label[k].Name : k \in DOMAIN label}
    ELSE IF labelName # "" THEN {labelName} ELSE {}

\* the Actor names a Push call refers to
ActorNames(call) ==
    CASE call.kind = "Actors" -> {call.coll[i].Name : i \in DOMAIN call.coll}
      [] call.kind = "Labels" -> {}
      [] call.kind = "Transactions" ->
            UNION {{RefName(call.coll[i].Sender, call.coll[i].SenderName),
                    RefName(call.coll[i].Receiver, call.coll[i].ReceiverName)}
                      : i \in DOMAIN call.coll} \ {""}

\* the Label names a Push call refers to
LabelNames(call) ==
    CASE call.kind = "Actors" -> {}
      [] call.kind = "Labels" -> {o[1].Name : o \in ChainNodes(call.coll)}
      [] call.kind = "Transactions" ->
            UNION {LabelRefs(call.coll[i].Label, call.coll[i].LabelName)
                   \cup UNION {LabelRefs(call.coll[i].Details[j].Label,
                                         call.coll[i].Details[j].LabelName)
                                  : j \in DOMAIN call.coll[i].Details}
                      : i \in DOMAIN call.coll}

\* both calls have returned
BothFinished == callers # <<>> /\ \A c \in DOMAIN callers : callers[c].txns = <<>>

\* C18: of two Push calls run at once on a store that holds none of their
\* names, neither fails with a duplicate-key error, and once both have returned
\* every Actor name and every Label name both refer to is stored (a table holds
\* one row for a stored name, the name being its primary key).
C18_NoDuplicateKey ==
    callers # <<>>
        => /\ \A c \in DOMAIN callers : callers[c].err # ErrDuplicateKey
           /\ BothFinished
                 => /\ ActorNames(callers[1].call) \cap ActorNames(callers[2].call)
                          \subseteq DOMAIN db.actors
                    /\ LabelNames(callers[1].call) \cap LabelNames(callers[2].call)
                          \subseteq DOMAIN db.labels

\* two calls that share a name have returned without an error, the statements
\* of the second having run between those of the first
C18_Witness ==
    /\ BothFinished
    /\ \A c \in DOMAIN callers : callers[c].err = NoErr
    /\ (ActorNames(callers[1].call) \cap ActorNames(callers[2].call))
          \cup (LabelNames(callers[1].call) \cap LabelNames(callers[2].call)) # {}
    /\ \E i, j, k \in DOMAIN issued :
          i < j /\ j < k /\ issued[i] = 1 /\ issued[j] = 2 /\ issued[k] = 1

====
